---- MODULE Spec2Model ----
(***************************************************************************)
(* A model of the two scripts of the repository:                           *)
(*   generate_qrs.py    _ensure_url_scheme, _safe_basename, make_qr_svgs,  *)
(*                      main                                               *)
(*   generate_pages.py  the menu script of the page template               *)
(*                                                                         *)
(* A Python str is a sequence of one-character strings, so that trimming,  *)
(* slicing, regular-expression matching and URL parsing are computed       *)
(* character by character as the code computes them.                       *)
(***************************************************************************)
EXTENDS Integers, Sequences, FiniteSets, TLC

VARIABLES
    raw,        \* Identifier Deriver: the input string s
    fpc,        \* Identifier Deriver: which call has been made on raw
    payload,    \* result of _ensure_url_scheme(raw)
    again,      \* result of _ensure_url_scheme(payload)
    max_len,    \* the max_len argument of the _safe_basename call
    readable,   \* _safe_basename: readable as of line 62 (before sanitizing)
    base,       \* result of _safe_basename(raw, max_len)
    argv,       \* main: args.items
    file,       \* main: the lines of --file, or NoFile
    items,      \* make_qr_svgs: the items argument
    idx,        \* make_qr_svgs: index of the next item of the for loop
    written,    \* make_qr_svgs: the list written
    saved,      \* make_qr_svgs: one record per qr.save call, in order
    files,      \* file names present in out_dir
    qpc,        \* main / make_qr_svgs: position
    caller,     \* who called make_qr_svgs: "main" or "library"
    stdout,     \* main: the count printed, or NoOutput
    menuOpen,   \* menu script: menu.classList.contains('open')
    ariaExpanded, \* menu script: btn's aria-expanded attribute
    maxHeight,  \* menu script: menu.style.maxHeight in px, 0 when unset
    vh,         \* menu script: the viewport height
    vv,         \* menu script: whether window.visualViewport exists
    lastEvent   \* menu script: the last event dispatched

fnVars == <<raw, fpc, payload, again, max_len, readable, base>>
qrVars == <<argv, file, items, idx, written, saved, files, qpc, caller, stdout>>
menuVars == <<menuOpen, ariaExpanded, maxHeight, vh, vv, lastEvent>>
vars == <<fnVars, qrVars, menuVars>>

----------------------------------------------------------------------------
(* Characters and strings *)

Lower == {"a","b","c","d","e","f","g","h","i","j","k","l","m",
          "n","o","p","q","r","s","t","u","v","w","x","y","z"}
Upper == {"A","B","C","D","E","F","G","H","I","J","K","L","M",
          "N","O","P","Q","R","S","T","U","V","W","X","Y","Z"}
Digit == {"0","1","2","3","4","5","6","7","8","9"}
Alpha == Lower \cup Upper

\* str.strip() with no argument strips whitespace
Whitespace == {" ", "\t", "\n", "\r", "\f"}

\* ASCII 32..126 in order (the double quote, the backslash and the
\* backtick by name);
\* Ord gives the code point of a character
AsciiTable ==
    <<" ","!","dquote","#","$","%","&","'","(",")","*","+",",","-",".","/",
      "0","1","2","3","4","5","6","7","8","9",":",";","<","=",">","?",
      "@","A","B","C","D","E","F","G","H","I","J","K","L","M","N","O",
      "P","Q","R","S","T","U","V","W","X","Y","Z","[","bslash","]","^","_",
      "btick","a","b","c","d","e","f","g","h","i","j","k","l","m","n","o",
      "p","q","r","s","t","u","v","w","x","y","z","{","|","}","~">>

OrdOf ==
    [c \in {AsciiTable[i] : i \in 1..Len(AsciiTable)} \cup Whitespace |->
        CASE c = "\t" -> 9
          [] c = "\n" -> 10
          [] c = "\f" -> 12
          [] c = "\r" -> 13
          [] OTHER -> 31 + (CHOOSE i \in 1..Len(AsciiTable) : AsciiTable[i] = c)]

Ord(c) == OrdOf[c]

Min(a, b) == IF a < b THEN a ELSE b
Max(a, b) == IF a > b THEN a ELSE b

\* s[:n], negative n counting from the end
Prefix(s, n) ==
    IF n >= 0 THEN SubSeq(s, 1, Min(n, Len(s)))
    ELSE SubSeq(s, 1, Max(Len(s) + n, 0))

\* position of the first element of s from position from on that is in set,
\* Len(s) + 1 when there is none
RECURSIVE FindIn(_, _, _)
FindIn(s, set, from) ==
    IF from > Len(s) THEN Len(s) + 1
    ELSE IF s[from] \in set THEN from
    ELSE FindIn(s, set, from + 1)

\* position of the first element of s from position from on that is not in set
RECURSIVE FindNotIn(_, _, _)
FindNotIn(s, set, from) ==
    IF from > Len(s) THEN Len(s) + 1
    ELSE IF s[from] \notin set THEN from
    ELSE FindNotIn(s, set, from + 1)

\* position of the last element of s up to position to that is not in set,
\* 0 when there is none
RECURSIVE LastNotIn(_, _, _)
LastNotIn(s, set, to) ==
    IF to < 1 THEN 0
    ELSE IF s[to] \notin set THEN to
    ELSE LastNotIn(s, set, to - 1)

\* position of the last element of s up to position to that is in set
RECURSIVE LastIn(_, _, _)
LastIn(s, set, to) ==
    IF to < 1 THEN 0
    ELSE IF s[to] \in set THEN to
    ELSE LastIn(s, set, to - 1)

Contains(s, c) == FindIn(s, {c}, 1) <= Len(s)

\* str.lstrip(chars), str.strip(chars)
LStripChars(s, set) == SubSeq(s, FindNotIn(s, set, 1), Len(s))
StripChars(s, set) == SubSeq(s, FindNotIn(s, set, 1), LastNotIn(s, set, Len(s)))

\* str.strip()
Strip(s) == StripChars(s, Whitespace)

\* str.replace(c, "") for each c of set
RemoveChars(s, set) == SelectSeq(s, LAMBDA c : c \notin set)

StartsWith(s, p) == Len(s) >= Len(p) /\ SubSeq(s, 1, Len(p)) = p

\* s.split(c): the pieces of s between the occurrences of c
RECURSIVE SplitFrom(_, _, _)
SplitFrom(s, c, from) ==
    LET j == FindIn(s, {c}, from)
    IN  IF j > Len(s) THEN <<SubSeq(s, from, Len(s))>>
        ELSE <<SubSeq(s, from, j - 1)>> \o SplitFrom(s, c, j + 1)

Split(s, c) == SplitFrom(s, c, 1)

\* sep.join(parts)
RECURSIVE Join(_, _)
Join(parts, sep) ==
    IF parts = << >> THEN << >>
    ELSE IF Len(parts) = 1 THEN parts[1]
    ELSE parts[1] \o sep \o Join(Tail(parts), sep)

\* str.lower() on ASCII
LowerChar(c) == IF c \in Upper THEN AsciiTable[Ord(c) + 32 - 31] ELSE c
ToLower(s) == [i \in 1..Len(s) |-> LowerChar(s[i])]

\* a result: a value, or the exception the call ended in
Ok(v) == [ok |-> TRUE, val |-> v]
Raised == [ok |-> FALSE, val |-> << >>]

----------------------------------------------------------------------------
(* urllib.parse.urlparse, as called at generate_qrs.py lines 30 and 49 *)

C0ControlOrSpace == {" ", "\t", "\n", "\r", "\f"}
UnsafeUrlBytes == {"\t", "\r", "\n"}
SchemeChars == Lower \cup Upper \cup Digit \cup {"+", "-", "."}
HexDigits == Digit \cup {"a","b","c","d","e","f","A","B","C","D","E","F"}

UsesParams ==
    { << >>, <<"f","t","p">>, <<"h","d","l">>,
      <<"p","r","o","s","p","e","r","o">>, <<"h","t","t","p">>,
      <<"i","m","a","p">>, <<"h","t","t","p","s">>, <<"s","h","t","t","p">>,
      <<"r","t","s","p">>, <<"r","t","s","p","u">>, <<"s","i","p">>,
      <<"s","i","p","s">>, <<"m","m","s">>, <<"s","f","t","p">>,
      <<"t","e","l">> }

\* int(octet) of at most three decimal digits
RECURSIVE DecValue(_)
DecValue(s) ==
    IF s = << >> THEN 0
    ELSE 10 * DecValue(SubSeq(s, 1, Len(s) - 1)) + (Ord(s[Len(s)]) - 48)

\* ipaddress.IPv4Address accepts s
IsIPv4(s) ==
    LET octets == Split(s, ".")
    IN  /\ Len(octets) = 4
        /\ \A k \in 1..4 :
              /\ octets[k] # << >>
              /\ \A i \in 1..Len(octets[k]) : octets[k][i] \in Digit
              /\ Len(octets[k]) <= 3
              /\ (Len(octets[k]) > 1 => octets[k][1] # "0")
              /\ DecValue(octets[k]) <= 255

IsHextet(h) ==
    /\ h # << >>
    /\ Len(h) <= 4
    /\ \A i \in 1..Len(h) : h[i] \in HexDigits

\* _ip_int_from_string with a "::" at part skip: the parts before and after
SkippedPartsOk(parts, skip) ==
    LET n  == Len(parts)
        hi == IF parts[1] = << >> THEN skip - 2 ELSE skip - 1
        lo == IF parts[n] = << >> THEN n - skip - 1 ELSE n - skip
    IN  /\ (parts[1] = << >> => hi = 0)
        /\ (parts[n] = << >> => lo = 0)
        /\ 8 - (hi + lo) >= 1
        /\ \A i \in 1..n : (parts[i] # << >> /\ i # skip) => IsHextet(parts[i])

\* _ip_int_from_string on the ":"-separated parts
HextetsOk(parts) ==
    LET n    == Len(parts)
        gaps == {i \in 2..(n - 1) : parts[i] = << >>}
    IN  /\ n <= 9
        /\ Cardinality(gaps) <= 1
        /\ IF gaps # {}
           THEN SkippedPartsOk(parts, CHOOSE i \in gaps : TRUE)
           ELSE n = 8 /\ \A i \in 1..n : IsHextet(parts[i])

\* a dotted-quad last part stands for two hextets
IPv6PartsOk(parts) ==
    /\ Len(parts) >= 3
    /\ IF Contains(parts[Len(parts)], ".")
       THEN /\ IsIPv4(parts[Len(parts)])
            /\ HextetsOk(SubSeq(parts, 1, Len(parts) - 1) \o <<<<"0">>, <<"0">>>>)
       ELSE HextetsOk(parts)

\* the scope id after "%", when there is one, is not empty and has no "%"
ScopeOk(s, pct) ==
    pct <= Len(s) =>
        /\ pct < Len(s)
        /\ ~Contains(SubSeq(s, pct + 1, Len(s)), "%")

\* ipaddress.IPv6Address accepts s
IsIPv6(s) ==
    /\ ScopeOk(s, FindIn(s, {"%"}, 1))
    /\ FindIn(s, {"%"}, 1) > 1
    /\ IPv6PartsOk(Split(SubSeq(s, 1, FindIn(s, {"%"}, 1) - 1), ":"))

\* _check_bracketed_host returns without raising
BracketedHostOk(h) ==
    IF h # << >> /\ h[1] = "v"
    THEN \* \Av[a-fA-F0-9]+\..+\Z
         LET dot == FindNotIn(h, HexDigits, 2)
         IN  dot > 2 /\ dot < Len(h) /\ h[dot] = "."
    ELSE IsIPv6(h)

\* netloc.partition('[')[2].partition(']')[0]
BracketedHost(netloc) ==
    LET open  == FindIn(netloc, {"["}, 1)
        close == FindIn(netloc, {"]"}, open + 1)
    IN  SubSeq(netloc, open + 1, close - 1)

\* _splitparams(url)[0]
SplitParamsPath(url) ==
    LET slash == LastIn(url, {"/"}, Len(url))
        i     == FindIn(url, {";"}, IF slash > 0 THEN slash ELSE 1)
    IN  IF i > Len(url) THEN url ELSE SubSeq(url, 1, i - 1)

\* urlsplit raises on the brackets of netloc
NetlocInvalid(netloc) ==
    \/ Contains(netloc, "[") /\ ~Contains(netloc, "]")
    \/ Contains(netloc, "]") /\ ~Contains(netloc, "[")
    \/ /\ Contains(netloc, "[")
       /\ Contains(netloc, "]")
       /\ ~BracketedHostOk(BracketedHost(netloc))

\* the path of url: the fragment after "#" and the query after "?" cut off,
\* and the params after ";" for a scheme that uses them
PathOf(scheme, url) ==
    LET noQuery == SubSeq(url, 1, FindIn(url, {"#", "?"}, 1) - 1)
    IN  IF scheme \in UsesParams /\ Contains(noQuery, ";")
        THEN SplitParamsPath(noQuery) ELSE noQuery

\* urlsplit once the scheme is split off: the netloc after "//", then the path
ParseHierPart(scheme, url) ==
    LET slashes == StartsWith(url, <<"/", "/">>)
        delim   == FindIn(url, {"/", "?", "#"}, 3)
    IN  IF slashes /\ NetlocInvalid(SubSeq(url, 3, delim - 1))
        THEN [err |-> TRUE, scheme |-> << >>, netloc |-> << >>, path |-> << >>]
        ELSE IF slashes
        THEN [err |-> FALSE, scheme |-> scheme,
              netloc |-> SubSeq(url, 3, delim - 1),
              path |-> PathOf(scheme, SubSeq(url, delim, Len(url)))]
        ELSE [err |-> FALSE, scheme |-> scheme, netloc |-> << >>,
              path |-> PathOf(scheme, url)]

\* urlsplit on the cleaned url: the scheme before the first ":"
ParseScheme(url) ==
    LET colon == FindIn(url, {":"}, 1)
        found == /\ colon <= Len(url)
                 /\ colon > 1
                 /\ url[1] \in Alpha
                 /\ \A k \in 1..(colon - 1) : url[k] \in SchemeChars
    IN  IF found
        THEN ParseHierPart(ToLower(SubSeq(url, 1, colon - 1)),
                           SubSeq(url, colon + 1, Len(url)))
        ELSE ParseHierPart(<< >>, url)

\* urlparse(url): its scheme, netloc and path, or the ValueError it raises
UrlParse(url) ==
    ParseScheme(RemoveChars(LStripChars(url, C0ControlOrSpace), UnsafeUrlBytes))

----------------------------------------------------------------------------
(* generate_qrs.py: the Identifier Deriver *)

HttpsPrefix == <<"h","t","t","p","s",":","/","/">>
WwwDot == <<"w","w","w",".">>
DomainChars == Alpha \cup Digit \cup {".", "-"}
SafeChars == Alpha \cup Digit \cup {".", "_", "-"}

\* $ of a Python regular expression matches at position p of s
AtEnd(s, p) == p = Len(s) + 1 \/ (p = Len(s) /\ s[p] = "\n")

\* [A-Za-z0-9.-]+\.[A-Za-z]{2,}(/.*)?$ matches s from position start on, the
\* \. taken at position dot
DomainMatchAt(s, start, dot) ==
    LET stop == FindNotIn(s, Alpha, dot + 1)
    IN  /\ dot > start
        /\ dot <= Len(s)
        /\ s[dot] = "."
        /\ \A k \in start..(dot - 1) : s[k] \in DomainChars
        /\ stop - (dot + 1) >= 2
        /\ \/ AtEnd(s, stop)
           \/ /\ stop <= Len(s)
              /\ s[stop] = "/"
              /\ AtEnd(s, FindIn(s, {"\n"}, stop + 1))

\* re.match(r"^(www\.)?[A-Za-z0-9.-]+\.[A-Za-z]{2,}(/.*)?$", s)
LooksLikeDomain(s) ==
    \E start \in {1} \cup (IF StartsWith(s, WwwDot) THEN {5} ELSE {}) :
        \E dot \in 1..Len(s) : DomainMatchAt(s, start, dot)

\* lines 31-36 without the tests of lines 31 and 34: the prefix is always added
SchemeEnsuredAlwaysPrefixed(raw0, s, parsed) ==
    IF parsed.err THEN Raised ELSE Ok(HttpsPrefix \o s)

\* lines 31-36 of _ensure_url_scheme: raw0 as given, s trimmed, parsed
SchemeEnsured(raw0, s, parsed) ==
    IF parsed.err THEN Raised
    ELSE IF parsed.scheme # << >> THEN Ok(s)
    ELSE IF LooksLikeDomain(s) THEN Ok(HttpsPrefix \o s)
    ELSE Ok(s)

\* lines 27-30 of _ensure_url_scheme
EnsureTrimmed(raw0, s) ==
    IF s = << >> THEN Ok(s) ELSE SchemeEnsured(raw0, s, UrlParse(s))

\* _ensure_url_scheme(s)
EnsureUrlScheme(s0) == EnsureTrimmed(s0, Strip(s0))

EmptyHint == <<"e","m","p","t","y">>
ItemLiteral == <<"i","t","e","m">>
QrLiteral == <<"q","r">>
HintChars == 24
DefaultMaxLen == 64
DigestSize == 6

\* hint of _safe_basename
HintOf(s0) == IF Strip(s0) = << >> THEN EmptyHint ELSE Strip(s0)

\* FirstSegment taking the last non-empty segment
LastSegment(path) ==
    LET to == LastNotIn(path, {"/"}, Len(path))
    IN  SubSeq(path, LastIn(path, {"/"}, to) + 1, to)

\* next((p for p in path.split("/") if p), "")
FirstSegment(path) ==
    LET from == FindNotIn(path, {"/"}, 1)
    IN  SubSeq(path, from, FindIn(path, {"/"}, from) - 1)

\* parts of _safe_basename, from the parsed hint
ReadableParts(hint, parsed) ==
    IF parsed.netloc # << >>
    THEN IF parsed.path # << >> /\ parsed.path # <<"/">>
            /\ FirstSegment(parsed.path) # << >>
         THEN <<parsed.netloc, FirstSegment(parsed.path)>>
         ELSE <<parsed.netloc>>
    ELSE <<Prefix(hint, HintChars)>>

\* readable = "-".join(parts) if parts else "item"
JoinReadable(parts) == IF parts # << >> THEN Join(parts, <<"-">>) ELSE ItemLiteral

\* re.sub(r"[^A-Za-z0-9._-]+", "-", s): the first character of a run of
\* unsafe characters becomes "-", the others of the run go
SubUnsafe(s) ==
    LET marks == [i \in 1..Len(s) |->
                    IF s[i] \in SafeChars THEN s[i]
                    ELSE IF i = 1 \/ s[i - 1] \in SafeChars THEN "-"
                    ELSE "gone"]
    IN  SelectSeq(marks, LAMBDA c : c # "gone")

\* Sanitize without the substitution of line 65: only the strip
SanitizeKeepsUnsafe(s) ==
    LET t == StripChars(s, {"-", ".", "_"})
    IN  IF t = << >> THEN ItemLiteral ELSE t

\* the sanitized readable
Sanitize(s) ==
    LET t == StripChars(SubUnsafe(s), {"-", ".", "_"})
    IN  IF t = << >> THEN ItemLiteral ELSE t

HexChars == <<"0","1","2","3","4","5","6","7","8","9","a","b","c","d","e","f">>

\* the sum of Ord(hint[j]) * (j + k) over the positions j of hint
RECURSIVE WeightedSum(_, _, _)
WeightedSum(hint, k, j) ==
    IF j > Len(hint) THEN 0
    ELSE Ord(hint[j]) * (j + k) + WeightedSum(hint, k, j + 1)

\* hashlib.blake2b(hint.encode("utf-8"), digest_size=6).hexdigest(): a function
\* of the bytes of hint giving 2 * DigestSize lowercase hex digits. BLAKE2b's
\* compression is not reproduced: the digits are a checksum of the bytes.
ShortHash(hint) ==
    LET a == WeightedSum(hint, 0, 1)
        b == WeightedSum(hint, -1, 1)
    IN  [i \in 1..(2 * DigestSize) |->
            HexChars[((a * i + (a - b) * (i * i + 1) + Len(hint)) % 16) + 1]]

\* CutBase cutting one character late
CutBaseOffByOne(b, maxLen) ==
    LET cut == IF Len(b) > maxLen THEN Prefix(b, maxLen + 1) ELSE b
    IN  IF cut = << >> THEN QrLiteral ELSE cut

\* base of _safe_basename, cut and with its fallback
CutBase(b, maxLen) ==
    LET cut == IF Len(b) > maxLen THEN Prefix(b, maxLen) ELSE b
    IN  IF cut = << >> THEN QrLiteral ELSE cut

\* readable of _safe_basename before it is sanitized (lines 49-62)
ReadableOfParsed(hint, parsed) ==
    IF parsed.err THEN Raised ELSE Ok(JoinReadable(ReadableParts(hint, parsed)))

ReadableOfHint(hint) == ReadableOfParsed(hint, UrlParse(hint))

ReadableOf(s0) == ReadableOfHint(HintOf(s0))

\* lines 64-76 of _safe_basename
BaseOfReadable(hint, r, maxLen) ==
    IF ~r.ok THEN Raised
    ELSE Ok(CutBase(Sanitize(r.val) \o <<"-">> \o ShortHash(hint), maxLen))

BaseOfHint(hint, maxLen) == BaseOfReadable(hint, ReadableOfHint(hint), maxLen)

\* _safe_basename(s, max_len)
SafeBasename(s0, maxLen) == BaseOfHint(HintOf(s0), maxLen)

----------------------------------------------------------------------------
(* Inputs of the Identifier Deriver: every concatenation of at most        *)
(* MaxTokens tokens                                                         *)

MaxTokens == 3

LongToken ==
    <<"a","b","c","d","e","f","g","h","i","j","k","l","m",
      "N","O","P","Q","R","S","T","U","V","W","0","1","2">>

Tokens ==
    { <<" ">>, <<"x">>, WwwDot, <<".","p","h">>, <<"/">>, <<"/","x","/","y">>,
      <<"/","/","x">>, <<"x",":">>, <<"[">>, <<":",":","]">>, <<"!">>,
      LongToken }

RECURSIVE Flatten(_)
Flatten(ts) == IF ts = << >> THEN << >> ELSE ts[1] \o Flatten(Tail(ts))

Inputs == {Flatten(ts) : ts \in UNION {[1..k -> Tokens] : k \in 0..MaxTokens}}

\* the max_len arguments tried
MaxLens == {0, 1, 2, 16, DefaultMaxLen}

----------------------------------------------------------------------------
(* The states in which a part of the program is not running *)

NotCalled == [ok |-> FALSE, val |-> << >>]

FnIdle ==
    /\ raw = << >>
    /\ fpc = "idle"
    /\ payload = NotCalled
    /\ again = NotCalled
    /\ max_len = DefaultMaxLen
    /\ readable = NotCalled
    /\ base = NotCalled

QrIdle ==
    /\ argv = << >>
    /\ file = [given |-> FALSE, lines |-> << >>]
    /\ items = << >>
    /\ idx = 1
    /\ written = << >>
    /\ saved = << >>
    /\ files = {}
    /\ qpc = "idle"
    /\ caller = "idle"
    /\ stdout = -1

MenuIdle ==
    /\ menuOpen = FALSE
    /\ ariaExpanded = "false"
    /\ maxHeight = 0
    /\ vh = 0
    /\ vv = FALSE
    /\ lastEvent = "idle"

----------------------------------------------------------------------------
(* SpecFn: the two operations of the Identifier Deriver applied to an input *)

InitFn ==
    /\ raw \in Inputs
    /\ fpc = "start"
    /\ payload = NotCalled
    /\ again = NotCalled
    /\ max_len = DefaultMaxLen
    /\ readable = NotCalled
    /\ base = NotCalled
    /\ QrIdle
    /\ MenuIdle

\* payload = _ensure_url_scheme(raw)
Normalize ==
    /\ fpc = "start"
    /\ payload' = EnsureUrlScheme(raw)
    /\ fpc' = "normalized"
    /\ UNCHANGED <<raw, again, max_len, readable, base, qrVars, menuVars>>

\* _ensure_url_scheme applied to the payload it returned
NormalizeAgain ==
    /\ fpc = "normalized"
    /\ payload.ok
    /\ again' = EnsureUrlScheme(payload.val)
    /\ fpc' = "renormalized"
    /\ UNCHANGED <<raw, payload, max_len, readable, base, qrVars, menuVars>>

\* base = _safe_basename(raw, m)
DeriveBasename ==
    /\ fpc = "start"
    /\ \E m \in MaxLens :
          /\ max_len' = m
          /\ readable' = ReadableOf(raw)
          /\ base' = SafeBasename(raw, m)
    /\ fpc' = "named"
    /\ UNCHANGED <<raw, payload, again, qrVars, menuVars>>

NextFn == Normalize \/ NormalizeAgain \/ DeriveBasename

SpecFn == InitFn /\ [][NextFn]_vars

----------------------------------------------------------------------------
(* SpecQr: main and make_qr_svgs of generate_qrs.py *)

MaxItems == 2
MaxArgs == 1

\* None: a one-element sequence whose element is no character
NoneItem == <<"None">>

BareDomain == <<"x", ".", "p", "h">>
BadUrl == <<"/", "/", "[">>

\* the strings main can be given as arguments or as lines of --file
MainItems == { << >>, <<" ">>, BareDomain, BadUrl }

\* the items make_qr_svgs can be called with
CallItems ==
    MainItems \cup
    { NoneItem, <<" ">> \o BareDomain \o <<" ">>, HttpsPrefix \o BareDomain,
      <<"!", "!">> }

ListsOf(S, n) == UNION {[1..k -> S] : k \in 0..n}

SvgSuffix == <<".", "s", "v", "g">>

NoFileName == [ok |-> FALSE, payload |-> << >>, name |-> << >>]

\* lines 106-107: the name of the file of a payload
NameOfBase(p, b) ==
    IF ~b.ok THEN NoFileName
    ELSE [ok |-> TRUE, payload |-> p, name |-> b.val \o SvgSuffix]

\* NameOfPayload deriving the name from the text, not from the payload
NameOfText(text, p) ==
    IF ~p.ok THEN NoFileName
    ELSE NameOfBase(p.val, SafeBasename(text, DefaultMaxLen))

\* lines 104-107: text the trimmed item, p its payload
NameOfPayload(text, p) ==
    IF ~p.ok THEN NoFileName
    ELSE NameOfBase(p.val, SafeBasename(p.val, DefaultMaxLen))

\* lines 103-107: the payload of text and the name of its file, or the
\* exception raised on the way
FileNameOf(text) == NameOfPayload(text, EnsureUrlScheme(text))

\* lines 97-101: the item is skipped
IsBlank(item) == item = NoneItem \/ Strip(item) = << >>

InitQr ==
    /\ FnIdle
    /\ MenuIdle
    /\ idx = 1
    /\ written = << >>
    /\ saved = << >>
    /\ files = {}
    /\ stdout = -1
    /\ \/ /\ caller = "main"
          /\ qpc = "main"
          /\ argv \in ListsOf(MainItems, MaxArgs)
          /\ file \in [given : {TRUE}, lines : ListsOf(MainItems, MaxItems)]
                      \cup {[given |-> FALSE, lines |-> << >>]}
          /\ items = << >>
       \/ /\ caller = "library"
          /\ qpc = "loop"
          /\ argv = << >>
          /\ file = [given |-> FALSE, lines |-> << >>]
          /\ items \in ListsOf(CallItems, MaxItems)

\* main, lines 175-184: the items are the arguments, then the lines of --file
MainCollect ==
    /\ qpc = "main"
    /\ items' = argv \o (IF file.given THEN file.lines ELSE << >>)
    /\ qpc' = IF items' = << >> THEN "usage_error" ELSE "loop"
    /\ UNCHANGED <<argv, file, idx, written, saved, files, caller, stdout,
                   fnVars, menuVars>>

\* one pass of the for loop on an item that is None, empty or blank
SkipItem ==
    /\ qpc = "loop"
    /\ idx <= Len(items)
    /\ IsBlank(items[idx])
    /\ idx' = idx + 1
    /\ UNCHANGED <<argv, file, items, written, saved, files, qpc, caller,
                   stdout, fnVars, menuVars>>

\* lines 109-117: the file f is saved and its path appended to written
SaveFile(item, f) ==
    /\ f.ok
    /\ files' = files \cup {f.name}
    /\ saved' = Append(saved, [raw |-> item, payload |-> f.payload,
                               path |-> f.name])
    /\ written' = Append(written, f.name)

\* one pass of the for loop that saves a file
WriteItem ==
    /\ qpc = "loop"
    /\ idx <= Len(items)
    /\ ~IsBlank(items[idx])
    /\ SaveFile(items[idx], FileNameOf(Strip(items[idx])))
    /\ idx' = idx + 1
    /\ UNCHANGED <<argv, file, items, qpc, caller, stdout, fnVars, menuVars>>

\* one pass of the for loop that ends in the ValueError of urlparse
RaiseItem ==
    /\ qpc = "loop"
    /\ idx <= Len(items)
    /\ ~IsBlank(items[idx])
    /\ ~FileNameOf(Strip(items[idx])).ok
    /\ qpc' = "raised"
    /\ UNCHANGED <<argv, file, items, idx, written, saved, files, caller,
                   stdout, fnVars, menuVars>>

\* line 119: return written
Return ==
    /\ qpc = "loop"
    /\ idx > Len(items)
    /\ qpc' = "returned"
    /\ UNCHANGED <<argv, file, items, idx, written, saved, files, caller,
                   stdout, fnVars, menuVars>>

\* main, lines 194-196: the count and the paths are printed
MainReport ==
    /\ qpc = "returned"
    /\ caller = "main"
    /\ stdout' = Len(written)
    /\ qpc' = "done"
    /\ UNCHANGED <<argv, file, items, idx, written, saved, files, caller,
                   fnVars, menuVars>>

NextQr ==
    MainCollect \/ SkipItem \/ WriteItem \/ RaiseItem \/ Return \/ MainReport

SpecQr == InitQr /\ [][NextQr]_vars

----------------------------------------------------------------------------
(* SpecMenu: the menu script of the page template of generate_pages.py *)

HEADER_H == 56
MinMenuHeight == 120
MenuMargin == 12

\* the viewport heights tried, in whole pixels
ViewportHeights == {100, 188, 189, 320, 568, 812}

\* maxH of setMenuMaxHeight for a viewport of height h
MaxHeightFor(h) == Max(MinMenuHeight, h - HEADER_H - MenuMargin)

\* setMenuMaxHeight() in a viewport of height h
SetMenuMaxHeight(h) == maxHeight' = MaxHeightFor(h)

\* openMenu()
OpenMenu ==
    /\ SetMenuMaxHeight(vh)
    /\ menuOpen' = TRUE
    /\ ariaExpanded' = "true"

\* closeMenu without its setAttribute
CloseMenuStaleAria ==
    /\ menuOpen' = FALSE
    /\ UNCHANGED <<ariaExpanded, maxHeight>>

\* closeMenu()
CloseMenu ==
    /\ menuOpen' = FALSE
    /\ ariaExpanded' = "false"
    /\ UNCHANGED maxHeight

\* toggleMenu()
ToggleMenu == IF menuOpen THEN CloseMenu ELSE OpenMenu

\* the listeners of resize and scroll
AdjustIfOpen(h) == IF menuOpen THEN SetMenuMaxHeight(h) ELSE UNCHANGED maxHeight

InitMenu ==
    /\ FnIdle
    /\ QrIdle
    /\ menuOpen = FALSE
    /\ ariaExpanded = "false"
    /\ maxHeight = 0
    /\ vh \in ViewportHeights
    /\ vv \in BOOLEAN
    /\ lastEvent = "load"

\* a click on the button: its listener stops the propagation and toggles
ClickButton ==
    /\ ToggleMenu
    /\ lastEvent' = "button"
    /\ UNCHANGED <<vh, vv, fnVars, qrVars>>

\* a click in the menu list outside a link: the list's listener stops the
\* propagation, so the document's listener does not run
ClickMenuList ==
    /\ lastEvent' = "menu"
    /\ UNCHANGED <<menuOpen, ariaExpanded, maxHeight, vh, vv, fnVars, qrVars>>

\* a click on a link of the menu: the link's listener closes the menu, the
\* list's listener stops the propagation
ClickLink ==
    /\ CloseMenu
    /\ lastEvent' = "link"
    /\ UNCHANGED <<vh, vv, fnVars, qrVars>>

\* a click elsewhere reaches the document's listener
ClickElsewhere ==
    /\ CloseMenu
    /\ lastEvent' = "elsewhere"
    /\ UNCHANGED <<vh, vv, fnVars, qrVars>>

\* keydown with e.key === 'Escape'
PressEscape ==
    /\ CloseMenu
    /\ lastEvent' = "escape"
    /\ UNCHANGED <<vh, vv, fnVars, qrVars>>

\* keydown with another key
PressOtherKey ==
    /\ lastEvent' = "key"
    /\ UNCHANGED <<menuOpen, ariaExpanded, maxHeight, vh, vv, fnVars, qrVars>>

\* the viewport is resized to height h: the resize listener of
\* visualViewport, or of window when there is no visualViewport
Resize ==
    /\ \E h \in ViewportHeights : vh' = h /\ AdjustIfOpen(h)
    /\ lastEvent' = "resize"
    /\ UNCHANGED <<menuOpen, ariaExpanded, vv, fnVars, qrVars>>

\* the viewport is scrolled: only visualViewport has a scroll listener
Scroll ==
    /\ vh' = vh
    /\ IF vv THEN AdjustIfOpen(vh) ELSE UNCHANGED maxHeight
    /\ lastEvent' = "scroll"
    /\ UNCHANGED <<menuOpen, ariaExpanded, vv, fnVars, qrVars>>

NextMenu ==
    \/ ClickButton \/ ClickMenuList \/ ClickLink \/ ClickElsewhere
    \/ PressEscape \/ PressOtherKey \/ Resize \/ Scroll

SpecMenu == InitMenu /\ [][NextMenu]_vars

----------------------------------------------------------------------------
(* Claims on the Identifier Deriver, checked under SpecFn *)

AlphaNumeric == Alpha \cup Digit

\* s is made of symbols only: it has a character and no letter or digit
OnlySymbols(s) == Strip(s) # << >> /\ \A i \in 1..Len(s) : s[i] \notin AlphaNumeric

\* the non-empty "/"-delimited segments of path, in order
Segments(path) == SelectSeq(Split(path, "/"), LAMBDA seg : seg # << >>)

\* C1: every basename _safe_basename returns is non-empty and made of
\* characters of [A-Za-z0-9._-] only, whatever the input and max_len; for an
\* input made of symbols only it is "item", "-" and the hash (when max_len
\* leaves it uncut).
C1_BasenameIsSafe ==
    (fpc = "named" /\ base.ok) =>
        /\ base.val # << >>
        /\ \A i \in 1..Len(base.val) :
              base.val[i] \in Alpha \cup Digit \cup {".", "_", "-"}
        /\ (OnlySymbols(raw) /\ max_len >= Len(ItemLiteral) + 1 + 2 * DigestSize) =>
              base.val = ItemLiteral \o <<"-">> \o ShortHash(Strip(raw))

\* C1 witness: the basename of "!!!" under the default max_len starts "item-"
C1_Witness ==
    /\ fpc = "named"
    /\ base.ok
    /\ raw = <<"!", "!", "!">>
    /\ max_len = DefaultMaxLen
    /\ SubSeq(base.val, 1, 5) = ItemLiteral \o <<"-">>
    /\ Len(base.val) = 17

\* C2 as stated: the length of the basename never exceeds max_len, for
\* every max_len, 0 included.
C2_LengthWithinMaxLen ==
    (fpc = "named" /\ base.ok) => Len(base.val) <= max_len

\* C2 as amended: for max_len >= 1 the length of the basename never exceeds
\* max_len; for max_len = 0 the basename is "qr", of length 2.
C2_LengthWithinPositiveMaxLen ==
    (fpc = "named" /\ base.ok) =>
        /\ max_len >= 1 => Len(base.val) <= max_len
        /\ max_len = 0 => base.val = QrLiteral

\* C2 witness: a basename longer than the default max_len, cut to exactly
\* max_len characters
C2_Witness ==
    /\ fpc = "named"
    /\ base.ok
    /\ max_len = DefaultMaxLen
    /\ readable.ok
    /\ Len(readable.val) + 1 + 2 * DigestSize > DefaultMaxLen
    /\ Len(base.val) = DefaultMaxLen

\* C3: _ensure_url_scheme and _safe_basename are total: each call returns a
\* value and none ends in an error.
C3_DeriverIsTotal ==
    /\ fpc = "normalized" => payload.ok
    /\ fpc = "named" => base.ok

\* what C4 says _ensure_url_scheme(s0) returns
NormalizeByCases(s0) ==
    LET s == Strip(s0)
        p == UrlParse(s)
    IN  IF s = << >> THEN << >>
        ELSE IF ~p.err /\ p.scheme # << >> THEN s
        ELSE IF LooksLikeDomain(s) THEN HttpsPrefix \o s
        ELSE s

\* C4: _ensure_url_scheme trims and then returns "" for an empty text, the
\* text unchanged when it parses with a scheme, "https://" and the text when
\* it has no scheme and matches the bare-domain pattern, and the text
\* unchanged in every other case.
C4_NormalizeCases ==
    fpc = "normalized" => payload = Ok(NormalizeByCases(raw))

\* C4 on the calls that return: the value returned is the one C4 names (the
\* calls that raise are those of C3).
NormalizeCasesWhenReturned ==
    (fpc = "normalized" /\ payload.ok) =>
        /\ payload.val = NormalizeByCases(raw)
        /\ UrlParse(Strip(raw)).scheme # << >> => payload.val = Strip(raw)

\* a call of C4's third case: trimmed, then prefixed
NormalizePrefixedReached ==
    /\ fpc = "normalized"
    /\ raw # Strip(raw)
    /\ payload = Ok(HttpsPrefix \o Strip(raw))

\* C8 as stated: with a netloc, readable (line 62) is the netloc alone when
\* the path is empty or "/", and otherwise the netloc, "-" and the first
\* non-empty segment of the path; without a netloc it is the first 24
\* characters of the trimmed hint.
C8_ReadableAsStated ==
    (fpc = "named" /\ readable.ok) =>
        LET hint == HintOf(raw)
            p    == UrlParse(hint)
        IN  IF p.netloc # << >>
            THEN IF p.path \in {<< >>, <<"/">>}
                 THEN readable.val = p.netloc
                 ELSE /\ Segments(p.path) # << >>
                      /\ readable.val = p.netloc \o <<"-">> \o Segments(p.path)[1]
            ELSE readable.val = Prefix(hint, HintChars)

\* C8 as amended: with a netloc, readable is the netloc alone when the path
\* has no non-empty segment (it is empty or made of "/" only), and otherwise
\* the netloc, "-" and the first non-empty segment, the later ones dropped;
\* without a netloc it is the first 24 characters of the trimmed hint.
C8_ReadableParts ==
    (fpc = "named" /\ readable.ok) =>
        LET hint == HintOf(raw)
            p    == UrlParse(hint)
        IN  IF p.netloc # << >>
            THEN IF Segments(p.path) = << >>
                 THEN readable.val = p.netloc
                 ELSE readable.val = p.netloc \o <<"-">> \o Segments(p.path)[1]
            ELSE readable.val = Prefix(hint, HintChars)

\* C8 witness: a netloc and a path of two segments, the second dropped
C8_Witness ==
    /\ fpc = "named"
    /\ readable.ok
    /\ UrlParse(HintOf(raw)).netloc = <<"x">>
    /\ UrlParse(HintOf(raw)).path = <<"/", "x", "/", "y">>
    /\ readable.val = <<"x", "-", "x">>

\* C9: _ensure_url_scheme is idempotent: applied to a payload it returned, it
\* returns that payload.
C9_NormalizeIdempotent ==
    fpc = "renormalized" => again = payload

\* C9 witness: a payload that got the "https://" prefix and is returned
\* unchanged by the second call
C9_Witness ==
    /\ fpc = "renormalized"
    /\ payload.val = HttpsPrefix \o Strip(raw)
    /\ raw # Strip(raw)
    /\ again = payload

----------------------------------------------------------------------------
(* Claims on make_qr_svgs and main, checked under SpecQr *)

\* the items that are not skipped, in input order
NonBlank(its) == SelectSeq(its, LAMBDA it : ~IsBlank(it))

\* the call of make_qr_svgs is over: it returned or raised
Ended == {"returned", "done", "raised"}

\* written, saved and files hold one path per item of its, in order
OnePathPerItem(its) ==
    /\ Len(written) = Len(its)
    /\ Len(saved) = Len(its)
    /\ \A k \in 1..Len(its) :
          LET p == EnsureUrlScheme(its[k])
              b == SafeBasename(p.val, DefaultMaxLen)
          IN  /\ p.ok /\ b.ok
              /\ written[k] = b.val \o SvgSuffix
              /\ saved[k].path = written[k]
              /\ written[k] \in files

\* C5: for any sequence of items, make_qr_svgs skips the None, empty and
\* blank ones and writes one file per remaining item; the list it returns
\* holds one path per non-blank item, in input order.
C5_OneFilePerItem ==
    qpc \in Ended => qpc # "raised" /\ OnePathPerItem(NonBlank(items))

\* C5 on the calls that return (the calls that raise are those of C3)
OneFilePerItemWhenReturned ==
    qpc \in {"returned", "done"} => OnePathPerItem(NonBlank(items))

\* a call that skipped an item and wrote another has returned
SkippedAndWroteReached ==
    /\ qpc = "returned"
    /\ Len(items) = 2
    /\ Len(written) = 1

\* C6: when the arguments followed by the lines of --file hold no usable
\* item, main ends in the error of the command line, not in a run that
\* wrote no file.
C6_NoUsableItemIsError ==
    (qpc \in {"done", "usage_error"} /\ NonBlank(items) = << >>) =>
        qpc = "usage_error"

\* what main does: the error is raised exactly when the list is empty
UsageErrorOnEmptyList ==
    /\ qpc = "usage_error" => items = << >> /\ caller = "main"
    /\ (caller = "main" /\ qpc \notin {"main", "usage_error"}) => items # << >>

\* C7: the basename is a function of the trimmed hint alone: items whose
\* normalized text is equal get the same basename, and make_qr_svgs saves
\* them at the same path.
C7_SameHintSamePath ==
    \A a, b \in 1..Len(saved) :
        Strip(saved[a].payload) = Strip(saved[b].payload) =>
            saved[a].path = saved[b].path

\* C7 witness: "x.ph" and "https://x.ph", two items, saved at one path
C7_Witness ==
    /\ Len(saved) = 2
    /\ saved[1].raw = BareDomain
    /\ saved[2].raw = HttpsPrefix \o BareDomain
    /\ saved[1].payload = saved[2].payload
    /\ saved[1].path = saved[2].path
    /\ Cardinality(files) = 1

----------------------------------------------------------------------------
(* Claim on the menu script, checked under SpecMenu *)

\* what C10 says of the event that has just been handled
EventEffect ==
    /\ lastEvent' = "button" => menuOpen' = ~menuOpen
    /\ lastEvent' = "menu" => menuOpen' = menuOpen
    /\ lastEvent' \in {"link", "elsewhere", "escape"} => ~menuOpen'

\* C10: after any sequence of events aria-expanded is "true" exactly when
\* the menu list has the class 'open'; a click on the button toggles the
\* menu, a click in the list outside a link leaves it as it is, and a click
\* on a link, a click elsewhere and Escape leave it closed.
C10_AriaFollowsOpen ==
    /\ [](ariaExpanded = "true" <=> menuOpen)
    /\ [](ariaExpanded \in {"true", "false"})
    /\ [][EventEffect]_menuVars

\* C10 witness: a menu that was opened has been closed by Escape
C10_Witness ==
    /\ lastEvent = "escape"
    /\ maxHeight > 0
    /\ ~menuOpen
    /\ ariaExpanded = "false"

====
